---- MODULE Spec2Model ----
(***************************************************************************)
(* Model of the archiver (src/python/archive_dir.py) and of the catalog    *)
(* search tool (src/search_db.py).                                         *)
(*                                                                         *)
(* Strings are sequences of one-character strings, so that os.path.join,   *)
(* the '.7z' suffix, str.endswith and SQL LIKE are computed, not assumed.  *)
(***************************************************************************)
EXTENDS Integers, Sequences, FiniteSets, TLC

VARIABLES
    tree,         \* the source tree: the set of its entries
    src,          \* os.walk(src_dir) as this run lists it
    destDirs,     \* directories existing under (and including) the destination root
    destFiles,    \* compressed artifacts on disk: path -> byte length
    files,        \* table files of the catalog, in rowid (insertion) order
    events,       \* table events of the catalog, in insertion order
    blobs,        \* blob names stored in the container
    run,          \* number of archiver runs started; the run's batch timestamp
    azure,        \* this run has both azure_container and azure_connection_string
    pc,           \* position of the orchestrator
    idx,          \* compression loop: index of the next entry of src
    queue,        \* upload loop: the rows fetched and not yet handled
    faults,       \* failures injected so far
    clean,        \* no failure was injected into this run
    lastLog,      \* attempts and outcome of the log_event calls of the last step
    compressed,   \* history: <<run, file_path>> of every 7z invocation
    thumbed,      \* history: <<run, file_path>> of every generate_thumbnail call
    uploadCalls,  \* history: <<run, filepath>> of every upload_blob call, in order
    deleted,      \* history: <<run, path>> of every artifact remove_directory deleted
    durable,      \* number of rows of files that are committed
    filter,       \* search tool: the filter_criteria of the last search
    results,      \* search tool: the rows the last search returned
    conn,         \* the catalog connection of __main__: "none", "open", "closed"
    connects,     \* history: number of sqlite3.connect calls of __main__
    showwarning   \* warnings.showwarning: "default" or "custom"

vars == <<tree, src, destDirs, destFiles, files, events, blobs, run, azure, pc, idx,
          queue, faults, clean, lastLog, compressed, thumbed, uploadCalls, deleted,
          durable, filter, results, conn, connects, showwarning>>

---------------------------------------------------------------------------
(* Bounds *)

MaxRuns == 2
MaxFiles == 2
MaxFaults == 2
MinArchive == 2
MaxEvents == 2
MaxRows == 2
MaxPatLen == 2

---------------------------------------------------------------------------
(* Strings *)

\* SQL NULL, Python None: a value that is no string of characters
NULL == <<"NULL">>

\* str.lower() on the characters of the model
LowerChar(c) == IF c = "A" THEN "a" ELSE IF c = "B" THEN "b" ELSE c
Lower(s) == [i \in 1..Len(s) |-> LowerChar(s[i])]

HasPrefix(s, pre) ==
    /\ Len(s) >= Len(pre)
    /\ SubSeq(s, 1, Len(pre)) = pre

HasSuffix(s, suf) ==
    /\ Len(s) >= Len(suf)
    /\ SubSeq(s, Len(s) - Len(suf) + 1, Len(s)) = suf

\* os.path.join(a, b) for a relative b
Join(a, b) == a \o <<"/">> \o b

DOT == <<".">>
SevenZ == <<".", "7", "z">>
PngExt == <<".", "p", "n", "g">>
SvgExt == <<".", "s", "v", "g">>
Mp4Ext == <<".", "m", "p", "4">>
TxtExt == <<".", "t", "x", "t">>


ImagePrefix == <<"i", "m", "a", "g", "e", "/">>
VideoPrefix == <<"v", "i", "d", "e", "o", "/">>
ImagePng == ImagePrefix \o <<"p", "n", "g">>
ImageSvg == ImagePrefix \o <<"s", "v", "g", "+", "x", "m", "l">>
VideoMp4 == VideoPrefix \o <<"m", "p", "4">>
TextPlain == <<"t", "e", "x", "t", "/", "p", "l", "a", "i", "n">>
Directory == <<"d", "i", "r", "e", "c", "t", "o", "r", "y">>

\* mimetypes.guess_type(file_path)[0]: decided by the extension of the name
GuessType(name) ==
    IF HasSuffix(name, PngExt) THEN ImagePng
    ELSE IF HasSuffix(name, SvgExt) THEN ImageSvg
    ELSE IF HasSuffix(name, Mp4Ext) THEN VideoMp4
    ELSE IF HasSuffix(name, TxtExt) THEN TextPlain
    ELSE NULL

\* content_type.startswith('image/'), content_type.startswith('video/')
IsImage(content_type) == HasPrefix(content_type, ImagePrefix)
IsVideo(content_type) == HasPrefix(content_type, VideoPrefix)

\* datetime.fromtimestamp(t).isoformat(): an injective rendering of the time
IsoFormat(t) == <<"T", t>>

---------------------------------------------------------------------------
(* The source trees *)

SrcDir == <<"s">>
DestDir == <<"t">>
DirName == <<"d">>
TxtName == <<"b">> \o TxtExt
SvgName == <<"a">> \o SvgExt

\* the file names of the model, in the order the walk lists them; the last
\* is the PNG that rasterising a.svg leaves beside it
NameOrder == <<SvgName, SvgName \o PngExt, TxtName, DirName>>
FileNames == {SvgName, TxtName, DirName}

\* os.stat results: st_size, st_ctime, st_mtime
Stats == {[size |-> 1, ctime |-> 1, mtime |-> 1],
          [size |-> 2, ctime |-> 1, mtime |-> 2]}
\* os.stat of the directory d
DirStat == [size |-> 1, ctime |-> 1, mtime |-> 1]

\* byte length of the archive 7z makes of a file: a function of the file,
\* never below the length of the archive's own header
ArchiveSize(stat) == IF stat.size < MinArchive THEN MinArchive ELSE stat.size

FileEntry(parent, name, stat) ==
    [kind |-> "file", root |-> parent, name |-> name, stat |-> stat]
DirEntry(stat) ==
    [kind |-> "dir", root |-> DOT, name |-> DirName, stat |-> stat]

Positions(hasDir) ==
    {p \in ({DOT} \cup (IF hasDir THEN {DirName} ELSE {})) \X FileNames :
        ~(hasDir /\ p = <<DOT, DirName>>)}

\* a tree is the set of its entries: at most the directory d under the root,
\* and at most MaxFiles files under the root and under d
TreesWith(dirs) ==
    UNION {{dirs \cup {FileEntry(q[1], q[2], f[q]) : q \in ps} : f \in [ps -> Stats]} :
           ps \in {q \in SUBSET Positions(dirs # {}) : Cardinality(q) <= MaxFiles}}
Trees == TreesWith({}) \cup TreesWith({DirEntry(DirStat)})

FilesIn(t, parent) ==
    LET at(n) == {e \in t : e.kind = "file" /\ e.root = parent /\ e.name = n}
        present == SelectSeq(NameOrder, LAMBDA n : at(n) # {})
    IN  [i \in 1..Len(present) |-> CHOOSE e \in at(present[i]) : TRUE]

\* os.walk(src_dir), flattened in the order the loops of the pipeline visit it:
\* the directories of the root, the files of the root, then the files of d
Walk(t) ==
    LET ds == {e \in t : e.kind = "dir"}
    IN  (IF ds = {} THEN <<>> ELSE <<CHOOSE e \in ds : TRUE>>)
        \o FilesIn(t, DOT) \o FilesIn(t, DirName)

\* the file of the tree at the place the walk listed
OnDisk(t, e) == CHOOSE x \in t : x.kind = "file" /\ x.root = e.root /\ x.name = e.name

\* a file written into the tree replaces the one at the same place
WriteFile(t, e) ==
    {x \in t : ~(x.kind = "file" /\ x.root = e.root /\ x.name = e.name)} \cup {e}

\* root of the walk for an entry, and the paths the loops derive from it
RootPath(e) == IF e.root = DOT THEN SrcDir ELSE Join(SrcDir, e.root)
SourcePath(e) == Join(RootPath(e), e.name)
DestPath(e) == Join(DestDir, e.root)
ZipFilePath(e) == Join(DestPath(e), e.name \o SevenZ)
RelFilePath(e) == Join(e.root, e.name \o SevenZ)
RelDirPath(e) == Join(e.root, e.name)

\* os.makedirs(dest_path): the destination root and the mirrored directory
MakeDirs(dirs, e) == dirs \cup {DestDir, DestPath(e)}


---------------------------------------------------------------------------
(* The event log *)

Retries == 5

\* what the attempts of one log_event call meet, attempt by attempt:
\* k times 'database is locked', then o
Plan(k, o) == [i \in 1..Retries |-> IF i <= k THEN "locked" ELSE o]
\* one attempt: "ok", the INSERT and the commit succeed; "locked", the INSERT
\* raises 'database is locked'; "commit locked", the INSERT succeeds and
\* conn.commit() raises 'database is locked' (a reader holds the database),
\* which leaves the inserted row in the open transaction; "error", the INSERT
\* raises another sqlite3.OperationalError
AttemptOutcomes == {"ok", "locked", "commit locked", "error"}
AllPlans == [1..Retries -> AttemptOutcomes]
\* the first attempt of a plan that does not find the database locked, 0 when
\* every attempt does
FirstSettled(plan) ==
    LET settled == {i \in DOMAIN plan : plan[i] \notin {"locked", "commit locked"}}
    IN  IF settled = {} THEN 0 ELSE CHOOSE i \in settled : \A j \in settled : i <= j
\* the plans that differ in an attempt log_event makes: what follows the
\* attempt that ends the loop is never met
MetPlans ==
    {plan \in AllPlans :
        \A i \in DOMAIN plan :
           (FirstSettled(plan) # 0 /\ i > FirstSettled(plan)) => plan[i] = "ok"}
OkPlan == Plan(0, "ok")
\* the plans the pipeline is run against: the insert succeeds at once, the
\* database stays locked, the insert fails otherwise
LogPlans == {OkPlan, Plan(Retries, "ok"), Plan(0, "error")}
\* the plans a step can still meet with n failures left to inject
PlansFor(n) == IF n > 0 THEN LogPlans ELSE {OkPlan}

\* the while loop of log_event, after n attempts that left rows rows in the
\* connection's transaction
RECURSIVE LogLoop(_, _, _, _)
LogLoop(retries, plan, n, rows) ==
    IF retries > 0
    THEN IF plan[n + 1] = "ok"
         THEN [inserted |-> TRUE, raised |-> FALSE, attempts |-> n + 1,
               locked |-> n, rows |-> rows + 1]
         ELSE IF plan[n + 1] = "locked"
         THEN LogLoop(retries - 1, plan, n + 1, rows)
         ELSE IF plan[n + 1] = "commit locked"
         THEN LogLoop(retries - 1, plan, n + 1, rows + 1)
         ELSE [inserted |-> FALSE, raised |-> TRUE, attempts |-> n + 1,
               locked |-> n, rows |-> rows]
    ELSE [inserted |-> FALSE, raised |-> FALSE, attempts |-> n, locked |-> n,
          rows |-> rows]

\* log_event(event_type, file_path, message, conn) on the events table ev, as
\* the connection sees the table when the call is over
LogEvent(ev, event_type, file_path, plan) ==
    LET r == LogLoop(Retries, plan, 0, 0)
    IN  [events   |-> ev \o [k \in 1..r.rows |->
                               [event_type |-> event_type,
                                file_path |-> file_path]],
         inserted |-> r.inserted,
         raised   |-> r.raised,
         attempts |-> r.attempts,
         locked   |-> r.locked,
         rows     |-> r.rows,
         plan     |-> plan,
         type     |-> event_type]

\* one call of log_event: what it met and what it did
LogRecord(l) == [type |-> l.type, attempts |-> l.attempts, locked |-> l.locked,
                 inserted |-> l.inserted, raised |-> l.raised,
                 rows |-> l.rows, plan |-> l.plan]

---------------------------------------------------------------------------
(* Thumbnails *)

\* where generate_thumbnail fails, if it does
ThumbOutcomes == {"ok", "svg2png", "decode"}

IsSvgPath(file_path) == HasSuffix(Lower(file_path), SvgExt)

\* generate_thumbnail(file_path, content_type, conn), called for an image or a
\* video; outcome says which library call raises, plan what log_event meets
GenerateThumbnail(file_path, content_type, outcome, ev, plan) ==
    LET rasterised == /\ IsImage(content_type)
                      /\ IsSvgPath(file_path)
                      /\ outcome # "svg2png"
        \* the local file_path, reassigned once the SVG is rasterised
        path == IF rasterised THEN file_path \o PngExt ELSE file_path
        log == LogEvent(ev, "Error generating thumbnail", path, plan)
    IN  IF outcome = "ok"
        THEN [thumbnail |-> "bytes", events |-> ev, failed |-> FALSE,
              raised |-> FALSE, inserted |-> FALSE, logs |-> <<>>,
              rasterised |-> rasterised]
        ELSE [thumbnail |-> NULL, events |-> log.events, failed |-> TRUE,
              raised |-> log.raised, inserted |-> log.inserted,
              logs |-> <<LogRecord(log)>>, rasterised |-> rasterised]


---------------------------------------------------------------------------
(* The catalog *)

\* one row of table files (the uuid is the row's position in the table)
FileRow(filename, filepath, content_type, stat, thumbnail, is_duplicate, original_path, batch) ==
    [filename |-> filename, filepath |-> filepath, content_type |-> content_type,
     size |-> stat.size, creation_time |-> IsoFormat(stat.ctime),
     modification_time |-> IsoFormat(stat.mtime), thumbnail |-> thumbnail,
     is_duplicate |-> is_duplicate, original_path |-> original_path,
     batch |-> batch]

\* WHERE filename = ? AND size = ? AND creation_time = ? AND modification_time = ?
SameFile(r, filename, stat) ==
    /\ r.filename = filename
    /\ r.size = stat.size
    /\ r.creation_time = IsoFormat(stat.ctime)
    /\ r.modification_time = IsoFormat(stat.mtime)

\* the duplicate query and its fetchone(): the first matching row, 0 if none
OriginalRecord(tbl, filename, stat) ==
    LET hits == {i \in 1..Len(tbl) : SameFile(tbl[i], filename, stat)}
    IN  IF hits = {} THEN 0 ELSE CHOOSE i \in hits : \A j \in hits : i <= j

\* os.stat(file_path) and the three fields read from it: the source file's
StatOfArchive(e) == [e.stat EXCEPT !.size = ArchiveSize(e.stat)]
StatOf(e) == e.stat

\* where the body of the try block raises for one file, if it does
FailPoints == {"none", "stat", "select", "compress", "insert"}

\* one iteration of the loop over files: the try block and its handler.
\* fail: the statement that raises;
\* th: the outcome of the thumbnail; p1, p2: what the log_event calls meet
ProcessFile(e, tbl, ev, dfiles, batch, fail, th, p1, p2) ==
    LET file_path == SourcePath(e)
        content_type == GuessType(file_path)
        stat == StatOf(e)
        original_record == OriginalRecord(tbl, e.name, stat)
        is_duplicate == original_record # 0
        early == fail \in {"stat", "select"}
        zipped == ~early /\ ~is_duplicate /\ fail # "compress"
        dfiles1 == IF zipped
                   THEN [q \in DOMAIN dfiles \cup {ZipFilePath(e)} |->
                            IF q = ZipFilePath(e) THEN ArchiveSize(e.stat)
                            ELSE dfiles[q]]
                   ELSE dfiles
        wanted == zipped /\ content_type # NULL
                         /\ (IsImage(content_type) \/ IsVideo(content_type))
        thumb == IF wanted
                 THEN GenerateThumbnail(file_path, content_type, th, ev, p1)
                 ELSE [thumbnail |-> NULL, events |-> ev, failed |-> FALSE,
                       raised |-> FALSE, inserted |-> FALSE, logs |-> <<>>,
                       rasterised |-> FALSE]
        row == IF is_duplicate
               THEN FileRow(e.name, RelFilePath(e), content_type, stat, NULL,
                            1, tbl[original_record].filepath, batch)
               ELSE FileRow(e.name, RelFilePath(e), content_type, stat,
                            thumb.thumbnail, 0, file_path, batch)
        caught == fail # "none" \/ thumb.raised
        log == LogEvent(thumb.events, "Error processing file", file_path, p2)
    IN  [files      |-> IF caught THEN tbl ELSE Append(tbl, row),
         events     |-> IF caught THEN log.events ELSE thumb.events,
         destFiles  |-> dfiles1,
         zipped     |-> zipped,
         thumbed    |-> wanted,
         rasterised |-> thumb.rasterised,
         caught     |-> caught,
         \* an events insert that succeeds commits the rows inserted before it
         committed  |-> thumb.inserted \/ (caught /\ log.inserted),
         raised     |-> caught /\ log.raised,
         logs       |-> thumb.logs \o (IF caught THEN <<LogRecord(log)>> ELSE <<>>),
         cost       |-> (IF fail # "none" THEN 1 ELSE 0)
                        + (IF thumb.failed THEN 1 ELSE 0)
                        + (IF thumb.failed /\ p1 # OkPlan THEN 1 ELSE 0)
                        + (IF caught /\ p2 # OkPlan THEN 1 ELSE 0)]


\* SELECT filepath FROM files WHERE batch = ? AND is_duplicate = 0
\*   AND content_type != "directory"   (NULL != 'directory' is not true in SQL)
UploadRows(tbl, batch) ==
    LET hit(r) == /\ r.batch = batch
                  /\ r.is_duplicate = 0
                  /\ r.content_type # NULL
                  /\ r.content_type # Directory
        rows == SelectSeq(tbl, hit)
    IN  [i \in 1..Len(rows) |-> rows[i].filepath]

---------------------------------------------------------------------------
(* The orchestrator *)

EmptyMap == [q \in {} |-> 0]
NoFilter == [c \in {} |-> <<>>]

\* datetime.now().strftime("%Y%m%d%H%M%S") of the n-th run
Timestamp(n) == <<ToString(n)>>

\* conn.close() without a commit loses the rows inserted since the last one
Committed(tbl, n) == SubSeq(tbl, 1, n)

Init ==
    /\ tree \in Trees
    /\ src = <<>>
    /\ destDirs = {}
    /\ destFiles = EmptyMap
    /\ files = <<>>
    /\ events = <<>>
    /\ blobs = {}
    /\ run = 0
    /\ azure = FALSE
    /\ pc = "idle"
    /\ idx = 1
    /\ queue = <<>>
    /\ faults = 0
    /\ clean = TRUE
    /\ lastLog = <<>>
    /\ compressed = {}
    /\ thumbed = {}
    /\ uploadCalls = <<>>
    /\ deleted = {}
    /\ durable = 0
    /\ filter = NoFilter
    /\ results = <<>>
    /\ conn = "none"
    /\ connects = 0
    /\ showwarning = "default"

\* the finally clause of __main__, at the position the step leaves the run in:
\* however the try block is left, conn.close() and the reset of the handler
CloseOnSuccess(position, c) == IF position = "done" THEN "closed" ELSE c
CloseAtExit(position, c) == IF position \in {"done", "failed"} THEN "closed" ELSE c
ResetAtExit(position, handler) ==
    IF position \in {"done", "failed"} THEN "default" ELSE handler

\* __main__ up to the call of compress_files_and_save_to_db, and the CREATE
\* TABLE IF NOT EXISTS statements; az: both Azure arguments are given
StartRun(az) ==
    /\ pc \in {"idle", "done", "failed"}
    /\ run < MaxRuns
    /\ run' = run + 1
    /\ azure' = az
    /\ src' = Walk(tree)
    /\ idx' = 1
    /\ queue' = <<>>
    /\ clean' = TRUE
    /\ lastLog' = <<>>
    /\ pc' = "compress"
    /\ conn' = "open"
    /\ connects' = connects + 1
    /\ showwarning' = "custom"
    /\ UNCHANGED <<tree, destDirs, destFiles, files, events, blobs, compressed,
                   thumbed, uploadCalls, deleted, durable, faults, filter,
                   results>>

\* the loop over dirs, one directory: nothing catches what it raises
CompressDir ==
    /\ pc = "compress"
    /\ idx <= Len(src)
    /\ src[idx].kind = "dir"
    /\ LET e == src[idx] IN
       \E fail \in {FALSE} \cup (IF faults < MaxFaults THEN {TRUE} ELSE {}) :
          /\ destDirs' = MakeDirs(destDirs, e)
          /\ files' = IF fail THEN Committed(files, durable)
                      ELSE Append(files, FileRow(e.name, RelDirPath(e), Directory,
                                                 e.stat, NULL, 0, SourcePath(e),
                                                 Timestamp(run)))
          /\ pc' = IF fail THEN "failed" ELSE pc
          /\ faults' = IF fail THEN faults + 1 ELSE faults
          /\ clean' = (clean /\ ~fail)
    /\ idx' = idx + 1
    /\ lastLog' = <<>>
    /\ UNCHANGED <<tree, src, destFiles, events, blobs, run, azure, queue,
                   compressed, thumbed, uploadCalls, deleted, durable, filter,
                   results>>
    /\ conn' = CloseAtExit(pc', conn)
    /\ showwarning' = ResetAtExit(pc', showwarning)
    /\ UNCHANGED connects

\* the loop over files, one file
CompressFile ==
    /\ pc = "compress"
    /\ idx <= Len(src)
    /\ src[idx].kind = "file"
    /\ LET e == OnDisk(tree, src[idx])
           ts == Timestamp(run)
           P(fail, th, p1, p2) ==
               ProcessFile(e, files, events, destFiles, ts, fail, th, p1, p2)
       IN
       \E fail \in (IF faults < MaxFaults THEN FailPoints ELSE {"none"}) :
       \E a \in {P(fail, "ok", OkPlan, OkPlan)} :
       /\ fail = "compress" => OriginalRecord(files, e.name, StatOf(e)) = 0
       /\ \E th \in (IF ~a.thumbed \/ faults + a.cost >= MaxFaults THEN {"ok"}
                     ELSE IF IsSvgPath(SourcePath(e)) THEN ThumbOutcomes
                     ELSE ThumbOutcomes \ {"svg2png"}) :
          \E p1 \in (IF th = "ok" THEN {OkPlan}
                     ELSE PlansFor(MaxFaults - faults - a.cost - 1)) :
          \E b \in {P(fail, th, p1, OkPlan)} :
          \E p2 \in (IF b.caught THEN PlansFor(MaxFaults - faults - b.cost)
                     ELSE {OkPlan}) :
          \E png \in (IF b.rasterised THEN Stats ELSE {e.stat}) :
          \E r \in {P(fail, th, p1, p2)} :
          LET n == IF r.committed THEN Len(files) ELSE durable
          IN  /\ faults + r.cost <= MaxFaults
              /\ destDirs' = MakeDirs(destDirs, e)
              /\ destFiles' = r.destFiles
              /\ events' = r.events
              /\ durable' = n
              /\ files' = IF r.raised THEN Committed(r.files, n) ELSE r.files
              /\ pc' = IF r.raised THEN "failed" ELSE pc
              /\ faults' = faults + r.cost
              /\ clean' = (clean /\ r.cost = 0)
              /\ lastLog' = r.logs
              /\ compressed' = IF r.zipped
                               THEN compressed \cup {<<run, SourcePath(e)>>}
                               ELSE compressed
              /\ thumbed' = IF r.thumbed
                            THEN thumbed \cup {<<run, SourcePath(e)>>}
                            ELSE thumbed
              \* cairosvg.svg2png writes file_path + '.png' beside the SVG
              /\ tree' = IF r.rasterised
                         THEN WriteFile(tree, FileEntry(e.root, e.name \o PngExt, png))
                         ELSE tree
    /\ idx' = idx + 1
    /\ UNCHANGED <<src, blobs, run, azure, queue, uploadCalls, deleted, filter,
                   results>>
    /\ conn' = CloseAtExit(pc', conn)
    /\ showwarning' = ResetAtExit(pc', showwarning)
    /\ UNCHANGED connects

\* the end of compress_files_and_save_to_db: conn.commit()
CompressEnd ==
    /\ pc = "compress"
    /\ idx > Len(src)
    /\ durable' = Len(files)
    /\ pc' = "compressed"
    /\ lastLog' = <<>>
    /\ UNCHANGED <<clean, tree, src, destDirs, destFiles, files, events, blobs, run,
                   azure, idx, queue, faults, compressed, thumbed, uploadCalls,
                   deleted, filter, results>>
    /\ conn' = CloseAtExit(pc', conn)
    /\ showwarning' = ResetAtExit(pc', showwarning)
    /\ UNCHANGED connects

\* __main__ after the compression: the summary, then either the head of
\* upload_to_azure (its SELECT and fetchall) or the end of the run
AfterCompress ==
    /\ pc = "compressed"
    /\ IF azure
       THEN /\ queue' = UploadRows(files, Timestamp(run))
            /\ pc' = "upload"
       ELSE /\ queue' = <<>>
            /\ pc' = "done"
    /\ lastLog' = <<>>
    /\ UNCHANGED <<clean, tree, src, destDirs, destFiles, files, events, blobs, run,
                   azure, idx, faults, compressed, thumbed, uploadCalls, deleted,
                   durable, filter, results>>
    /\ conn' = CloseAtExit(pc', conn)
    /\ showwarning' = ResetAtExit(pc', showwarning)
    /\ UNCHANGED connects

\* dest_dir + '/' + file_path, and timestamp + '/' + file_path
LocalFile(file_path) == Join(DestDir, file_path)
BlobFile(ts, file_path) == Join(ts, file_path)

\* the loop of upload_to_azure, one row; ok: upload_blob returns
UploadFile ==
    /\ pc = "upload"
    /\ queue # <<>>
    /\ LET file_path == Head(queue)
           local_file == LocalFile(file_path)
           blob_file == BlobFile(Timestamp(run), file_path)
           opened == local_file \in DOMAIN destFiles
       IN
       \E ok \in {TRUE} \cup (IF faults < MaxFaults THEN {FALSE} ELSE {}) :
       \E plan \in (IF opened /\ ok THEN {OkPlan}
                    ELSE PlansFor(MaxFaults - faults - (IF opened THEN 1 ELSE 0))) :
       LET log == LogEvent(events, "Error uploading file to Azure", file_path, plan)
           cost == (IF opened /\ ~ok THEN 1 ELSE 0) + (IF plan # OkPlan THEN 1 ELSE 0)
       IN  /\ faults + cost <= MaxFaults
           /\ faults' = faults + cost
           /\ clean' = (clean /\ cost = 0)
           /\ uploadCalls' = IF opened
                             THEN Append(uploadCalls, <<run, file_path>>)
                             ELSE uploadCalls
           /\ IF opened /\ ok
              THEN /\ blobs' = blobs \cup {blob_file}
                   /\ events' = events
                   /\ lastLog' = <<>>
                   /\ pc' = pc
              ELSE /\ blobs' = blobs
                   /\ events' = log.events
                   /\ lastLog' = <<LogRecord(log)>>
                   /\ pc' = IF log.raised THEN "failed" ELSE pc
    /\ queue' = Tail(queue)
    /\ UNCHANGED <<tree, src, destDirs, destFiles, files, run, azure, idx,
                   compressed, thumbed, deleted, durable, filter, results>>
    /\ conn' = CloseAtExit(pc', conn)
    /\ showwarning' = ResetAtExit(pc', showwarning)
    /\ UNCHANGED connects

\* remove_directory(dest_directory) after upload_to_azure has returned:
\* os.walk lists nothing of a missing directory, and os.rmdir of it raises
RemoveDirectory ==
    /\ pc = "upload"
    /\ queue = <<>>
    /\ IF DestDir \in destDirs
       THEN /\ deleted' = deleted \cup {<<run, q>> : q \in DOMAIN destFiles}
            /\ destFiles' = EmptyMap
            /\ destDirs' = {}
            /\ pc' = "done"
       ELSE /\ pc' = "failed"
            /\ UNCHANGED <<deleted, destFiles, destDirs>>
    /\ lastLog' = <<>>
    /\ UNCHANGED <<tree, src, files, events, blobs, run, azure, idx, queue,
                   faults, clean, compressed, thumbed, uploadCalls, durable, filter,
                   results>>
    /\ conn' = CloseAtExit(pc', conn)
    /\ showwarning' = ResetAtExit(pc', showwarning)
    /\ UNCHANGED connects

Next ==
    \/ \E az \in BOOLEAN : StartRun(az)
    \/ CompressDir
    \/ CompressFile
    \/ CompressEnd
    \/ AfterCompress
    \/ UploadFile
    \/ RemoveDirectory

Spec == Init /\ [][Next]_vars


---------------------------------------------------------------------------
(* log_event on its own: any event, against any run of attempt outcomes *)

EventTypes == {"Error processing file", "Error generating thumbnail",
               "Error uploading file to Azure", "FFmpeg Warning"}
EventPaths == {Join(SrcDir, SvgName), Join(SrcDir, TxtName)}

LogCall ==
    /\ Len(events) < MaxEvents
    /\ \E t \in EventTypes, path \in EventPaths, plan \in MetPlans :
          \E l \in {LogEvent(events, t, path, plan)} :
             /\ events' = l.events
             /\ lastLog' = <<LogRecord(l)>>
    /\ UNCHANGED <<tree, src, destDirs, destFiles, files, blobs, run, azure, pc,
                   idx, queue, faults, clean, compressed, thumbed, uploadCalls,
                   deleted, durable, filter, results, conn, connects,
                   showwarning>>

LogInit == Init /\ tree = {}
LogNext == LogCall
LogSpec == LogInit /\ [][LogNext]_vars

---------------------------------------------------------------------------
(* The search tool *)

RECURSIVE LikeCaseSensitive(_, _)
LikeCaseSensitive(pat, str) ==
    IF pat = <<>> THEN str = <<>>
    ELSE IF Head(pat) = "%"
         THEN LikeCaseSensitive(Tail(pat), str)
              \/ (str # <<>> /\ LikeCaseSensitive(pat, Tail(str)))
    ELSE /\ str # <<>>
         /\ (Head(pat) = "_" \/ Head(pat) = Head(str))
         /\ LikeCaseSensitive(Tail(pat), Tail(str))

\* SQLite's LIKE: % is any run of characters, _ any one character, and
\* letters compare without regard to case
RECURSIVE Like(_, _)
Like(pat, str) ==
    IF pat = <<>> THEN str = <<>>
    ELSE IF Head(pat) = "%"
         THEN Like(Tail(pat), str) \/ (str # <<>> /\ Like(pat, Tail(str)))
    ELSE /\ str # <<>>
         /\ (Head(pat) = "_" \/ LowerChar(Head(pat)) = LowerChar(Head(str)))
         /\ Like(Tail(pat), Tail(str))

\* <column> LIKE ? on one row; NULL LIKE ? is not true
ColumnLike(row, key, pat) == row[key] # NULL /\ Like(pat, row[key])

\* search_database(db_path, filter_criteria) on the table tbl
SearchDatabase(tbl, fc) ==
    LET values == [key \in DOMAIN fc |-> <<"%">> \o fc[key] \o <<"%">>]
        hits == {i \in 1..Len(tbl) :
                    \A key \in DOMAIN fc : ColumnLike(tbl[i], key, values[key])}
        ids == SelectSeq([i \in 1..Len(tbl) |-> i], LAMBDA i : i \in hits)
    IN  [k \in 1..Len(ids) |->
            [id |-> ids[k], filename |-> tbl[ids[k]].filename,
             content_type |-> tbl[ids[k]].content_type,
             size |-> tbl[ids[k]].size, filepath |-> tbl[ids[k]].filepath]]

\* the names of the cataloged files, and the filters, of the searches checked
SearchNames == {<<"a">>, <<"a", "_", "b">>, <<"A", "b">> \o TxtExt,
                <<"b", "%">> \o TxtExt}
PatChars == {"a", "A", "_", "%"}
Patterns == UNION {[1..n -> PatChars] : n \in 1..MaxPatLen}
SearchColumns == {"filename", "content_type"}
Filters == UNION {[cols -> Patterns] : cols \in (SUBSET SearchColumns) \ {{}}}

\* the row the pipeline inserts for a file of that name under the root
SearchRow(name) ==
    FileRow(name, Join(DOT, name \o SevenZ), GuessType(Join(SrcDir, name)),
            DirStat, NULL, 0, Join(SrcDir, name), Timestamp(1))
SearchCatalogs ==
    UNION {{[i \in 1..n |-> SearchRow(f[i])] : f \in [1..n -> SearchNames]} :
           n \in 0..MaxRows}

\* one run of the tool: __main__ calls search_database once
Search ==
    \E fc \in Filters :
       /\ pc = "idle"
       /\ pc' = "searched"
       /\ filter' = fc
       /\ results' = SearchDatabase(files, fc)
       /\ UNCHANGED <<tree, src, destDirs, destFiles, files, events, blobs, run,
                      azure, idx, queue, faults, clean, lastLog, compressed,
                      thumbed, uploadCalls, deleted, durable, conn, connects,
                      showwarning>>

SearchInit ==
    /\ tree = {}
    /\ src = <<>>
    /\ destDirs = {}
    /\ destFiles = EmptyMap
    /\ files \in SearchCatalogs
    /\ events = <<>>
    /\ blobs = {}
    /\ run = 0
    /\ azure = FALSE
    /\ pc = "idle"
    /\ idx = 1
    /\ queue = <<>>
    /\ faults = 0
    /\ clean = TRUE
    /\ lastLog = <<>>
    /\ compressed = {}
    /\ thumbed = {}
    /\ uploadCalls = <<>>
    /\ deleted = {}
    /\ durable = Len(files)
    /\ filter = NoFilter
    /\ results = <<>>
    /\ conn = "none"
    /\ connects = 0
    /\ showwarning = "default"
SearchNext == Search
SearchSpec == SearchInit /\ [][SearchNext]_vars


---------------------------------------------------------------------------
(* Properties *)

\* the run whose timestamp a batch is
RunOf(batch) == CHOOSE k \in 1..MaxRuns : Timestamp(k) = batch
\* the filepath of the row whose artifact a path under the destination is
RelOf(local_file) == SubSeq(local_file, Len(DestDir) + 2, Len(local_file))
\* the source path of the file a row was written for
RowSource(r) ==
    LET rel == SubSeq(r.filepath, 1, Len(r.filepath) - Len(SevenZ))
    IN  IF HasPrefix(rel, DOT \o <<"/">>)
        THEN Join(SrcDir, SubSeq(rel, 3, Len(rel)))
        ELSE Join(SrcDir, rel)
IsFileRow(r) == r.content_type # Directory
RowsOf(batch) == {i \in DOMAIN files : files[i].batch = batch}
FileEntriesOf(walk) == {OnDisk(tree, walk[k]) : k \in {j \in DOMAIN walk : walk[j].kind = "file"}}

\* C1: an archive that remove_directory deleted had been stored in the
\* container by that run: a file whose upload was called, failed and was
\* logged as "Error uploading file to Azure" keeps its local archive
C1_DeletedOnlyIfUploaded ==
    \A d \in deleted :
        (/\ \E k \in DOMAIN uploadCalls : uploadCalls[k] = <<d[1], RelOf(d[2])>>
         /\ \E k \in DOMAIN events :
               events[k] = [event_type |-> "Error uploading file to Azure",
                            file_path |-> RelOf(d[2])])
            => BlobFile(Timestamp(d[1]), RelOf(d[2])) \in blobs

\* C2: when the upload loop has ended, the upload calls of the run are exactly
\* one for each row of the batch that is neither a duplicate nor a directory,
\* rows without a content type included
C2_UploadScope ==
    (pc = "upload" /\ queue = <<>>) =>
        LET due == {files[i].filepath :
                       i \in {j \in RowsOf(Timestamp(run)) :
                                 files[j].is_duplicate = 0 /\ IsFileRow(files[j])}}
            calls(fp) == {k \in DOMAIN uploadCalls : uploadCalls[k] = <<run, fp>>}
        IN  /\ \A fp \in due : Cardinality(calls(fp)) = 1
            /\ \A k \in DOMAIN uploadCalls :
                  uploadCalls[k][1] = run => uploadCalls[k][2] \in due

\* C3: when the processing of a file raises, the run goes on with the next
\* file: the handler's own log_event call does not end it, and the event it
\* records is "Error processing file" for that file
C3_FileFailureContained ==
    \A k \in DOMAIN lastLog :
        lastLog[k].type = "Error processing file" =>
            /\ pc # "failed"
            /\ lastLog[k].inserted =>
               events[Len(events)] =
                  [event_type |-> "Error processing file",
                   file_path |-> SourcePath(src[idx - 1])]

\* C4: a duplicate row's file was neither compressed nor thumbnailed in the
\* run of the row, and its original_path is the filepath of an earlier row
\* that is a file, is no duplicate, and agrees on filename, size and times
C4_DuplicatesPointAtOriginals ==
    \A i \in DOMAIN files :
        files[i].is_duplicate = 1 =>
            /\ <<RunOf(files[i].batch), RowSource(files[i])>> \notin compressed
            /\ <<RunOf(files[i].batch), RowSource(files[i])>> \notin thumbed
            /\ \E j \in 1..(i - 1) :
                  /\ files[j].filepath = files[i].original_path
                  /\ files[j].is_duplicate = 0
                  /\ IsFileRow(files[j])
                  /\ files[j].filename = files[i].filename
                  /\ files[j].size = files[i].size
                  /\ files[j].creation_time = files[i].creation_time
                  /\ files[j].modification_time = files[i].modification_time

\* the rows a run wrote for a file
EntriesOf(n, e) ==
    {i \in RowsOf(Timestamp(n)) : files[i].filepath = RelFilePath(e)}

\* C5: when the pipeline has run twice over the tree it was given and nothing
\* failed in either run, the second run has added one row for each file it
\* walked, a duplicate whose original_path is the filepath of the file's own
\* first-run row, and it has compressed nothing
C5_DedupIdempotence ==
    (run = 2 /\ pc = "compressed" /\ faults = 0) =>
        /\ \A e \in FileEntriesOf(src) :
              /\ Cardinality(EntriesOf(2, e)) = 1
              /\ \A i \in EntriesOf(2, e) :
                    /\ files[i].is_duplicate = 1
                    /\ \E j \in EntriesOf(1, e) :
                          files[i].original_path = files[j].filepath
        /\ \A c \in compressed : c[1] # 2

\* C6: the destination tree exists when the compression has ended, it is gone
\* when a run with upload has ended, and a run without upload calls no upload
\* and deletes nothing
C6_CleanupOrdering ==
    /\ pc = "compressed" => DestDir \in destDirs
    /\ (pc = "done" /\ azure) => DestDir \notin destDirs
    /\ (run > 0 /\ ~azure) =>
          /\ \A k \in DOMAIN uploadCalls : uploadCalls[k][1] # run
          /\ \A d \in deleted : d[1] # run
          /\ pc \in {"compressed", "done"} /\ src # <<>> => DestDir \in destDirs

\* C7: in a first run, when the thumbnail of a file fails and nothing else
\* does, the catalog has one row for the file, without a thumbnail, the event
\* log has one "Error generating thumbnail" row with the file's path, and no
\* "Error processing file" row for it
C7_ThumbnailFailureLogged ==
    (/\ run = 1
     /\ faults = 1
     /\ idx > 1
     /\ \E k \in DOMAIN lastLog : lastLog[k].type = "Error generating thumbnail")
    => LET e == src[idx - 1]
           rows == EntriesOf(1, e)
       IN  /\ Cardinality(rows) = 1
           /\ \A i \in rows : files[i].thumbnail = NULL /\ files[i].is_duplicate = 0
           /\ Cardinality({k \in DOMAIN events :
                  /\ events[k].event_type = "Error generating thumbnail"
                  /\ events[k].file_path = SourcePath(e)}) = 1
           /\ \A k \in DOMAIN events :
                  events[k] # [event_type |-> "Error processing file",
                               file_path |-> SourcePath(e)]

\* the value occurs in the string as it is written
LiteralIn(v, str) ==
    \E k \in 0..(Len(str) - Len(v)) : SubSeq(str, k + 1, k + Len(v)) = v

\* the value occurs in the string when letters are compared without regard to
\* case, each _ of the value stands for any one character and each % for any
\* run of characters: f places the characters of the value in the string
OccursIn(v, str) ==
    \E f \in [DOMAIN v -> 0..Len(str)] :
        /\ \A i \in DOMAIN v :
              IF v[i] = "%" THEN f[i] = 0
              ELSE /\ f[i] >= 1
                   /\ v[i] = "_" \/ LowerChar(v[i]) = LowerChar(str[f[i]])
        /\ \A i, j \in DOMAIN v :
              (i < j /\ v[i] # "%" /\ v[j] # "%") => f[i] < f[j]
        /\ \A i \in 1..(Len(v) - 1) :
              (v[i] # "%" /\ v[i + 1] # "%") => f[i + 1] = f[i] + 1

ResultIds == {results[k].id : k \in DOMAIN results}
ResultsInOrder ==
    /\ \A k \in 1..(Len(results) - 1) : results[k].id < results[k + 1].id
    /\ \A k \in DOMAIN results :
          /\ results[k].id \in DOMAIN files
          /\ results[k].filename = files[results[k].id].filename
          /\ results[k].content_type = files[results[k].id].content_type
          /\ results[k].size = files[results[k].id].size
          /\ results[k].filepath = files[results[k].id].filepath

\* C8 as stated: a search returns, in insertion order, exactly the rows in
\* which every named column literally contains the filter's value
C8_LiteralSubstring ==
    pc = "searched" =>
        /\ ResultsInOrder
        /\ ResultIds = {i \in DOMAIN files :
                           \A key \in DOMAIN filter :
                              /\ files[i][key] # NULL
                              /\ LiteralIn(filter[key], files[i][key])}

\* C8 amended: a search returns, in insertion order, exactly the rows in which
\* every named column is not NULL and contains the filter's value as LIKE
\* reads it: letters without regard to case, _ and % of the value as wildcards
C8_LikeSubstring ==
    pc = "searched" =>
        /\ ResultsInOrder
        /\ ResultIds = {i \in DOMAIN files :
                           \A key \in DOMAIN filter :
                              /\ files[i][key] # NULL
                              /\ OccursIn(filter[key], files[i][key])}

C8_Witness ==
    /\ pc = "searched"
    /\ Len(files) = 2
    /\ Len(results) = 1
    /\ \E key \in DOMAIN filter :
          ~LiteralIn(filter[key], files[results[1].id][key])

\* the rows of the running batch written for a file that was compressed
ArchivedRows ==
    {i \in RowsOf(Timestamp(run)) :
        /\ IsFileRow(files[i])
        /\ files[i].is_duplicate = 0
        /\ LocalFile(files[i].filepath) \in DOMAIN destFiles}

C10_LockedOutRaises ==
    \A k \in DOMAIN lastLog : ~lastLog[k].raised => lastLog[k].inserted

\* the events of the table that the last log_event call put there
RowsOfCall(l) ==
    {k \in DOMAIN events :
        /\ k > Len(events) - l.rows
        /\ events[k].event_type = l.type}

\* C11: a log_event call makes at most 5 attempts and one more attempt only
\* after an attempt that found the database locked; it stops at the first
\* attempt that succeeds, and the call has then added exactly one event row;
\* a failure that is not 'database is locked' is raised at the attempt that
\* met it
C11_RetryOnlyWhenLocked ==
    \A k \in DOMAIN lastLog :
        LET l == lastLog[k]
            first == FirstSettled(l.plan)
        IN  /\ l.attempts \in 1..Retries
            /\ l.attempts = (IF first = 0 THEN Retries ELSE first)
            /\ l.inserted <=> (first # 0 /\ l.plan[first] = "ok")
            /\ l.raised <=> (first # 0 /\ l.plan[first] = "error")
            /\ l.inserted => Cardinality(RowsOfCall(l)) = 1

\* C12: every insert is committed at once: when a step of the compression
\* phase ends the run with an exception, every row that was in the catalog
\* before that step is still there for the next run
C12_InsertsSurviveFailure ==
    [][(pc = "compress" /\ pc' = "failed") =>
          \A i \in DOMAIN files :
             i \in DOMAIN files' /\ files'[i] = files[i]]_vars

\* C13: a run opens one catalog connection; while a phase can use the catalog
\* the connection is open and the warning handler that logs through it is
\* only installed then; however the run ends, after the compression, the
\* upload or the cleanup, with or without an exception, the connection is
\* closed
C13_ConnectionClosedOnEveryExit ==
    /\ connects = run
    /\ pc \in {"compress", "compressed", "upload"} => conn = "open"
    /\ pc \in {"done", "failed"} => conn = "closed"
    /\ showwarning = "custom" => conn = "open"

C13_Witness ==
    /\ run = 2
    /\ connects = 2
    /\ pc = "failed"
    /\ conn = "closed"
    /\ azure
    /\ \E k \in DOMAIN uploadCalls : uploadCalls[k][1] = run

====
